---- MODULE Spec2Model ----
(***************************************************************************)
(* Model of astrica1/cmdutils, executer.AsyncExecute (src/cmdutils.go,     *)
(* lines 353-460): a child process is started with its stdout and stderr   *)
(* attached to pipes, and four goroutines are spawned:                     *)
(*   - the stderr decode goroutine  (lines 379-405),                       *)
(*   - the stdout decode goroutine  (lines 409-435),                       *)
(*   - the "cancel on error" goroutine (lines 438-447),                    *)
(*   - the "wait and close" goroutine  (lines 450-457).                    *)
(* The caller ranges over the returned channel.                            *)
(* Beside it, the functions mergePerm (lines 177-184), executer.Mkdir      *)
(* (lines 310-325) and NewExecuter (lines 236-274) are modelled as         *)
(* operators, applied to bounded inputs by the specification HelperSpec.   *)
(*                                                                         *)
(* Strings are sequences of one-character strings; "" is << >>.            *)
(*                                                                         *)
(* Library behaviour the model relies on (os/exec, os, runtime):           *)
(*   - exec.Command leaves the field cmd.Cancel nil (only CommandContext   *)
(*     sets it), so the call cmd.Cancel() at line 441 is a call of a nil   *)
(*     func value: the goroutine panics and the process dies.              *)
(*   - cmd.Wait waits for the child to exit and then closes the parent's   *)
(*     ends of the pipes made by StdoutPipe/StderrPipe, one after the      *)
(*     other in that order, before it returns; a Read on a closed pipe     *)
(*     fails with os.ErrClosed, whatever is still in it.                   *)
(*   - a Read on a pipe blocks while the pipe is empty and the write end   *)
(*     is open, and fails with io.EOF once it is empty and the child has   *)
(*     exited. A Read that fails stores nothing in the buffer.             *)
(*   - a send on a closed channel panics, also when the sender was already *)
(*     blocked at the time of the close; close of a closed channel panics; *)
(*     a panic in any goroutine ends the whole process.                    *)
(***************************************************************************)
EXTENDS Integers, Sequences, FiniteSets, TLC

VARIABLES
    launchOutcome, \* input: which step of the launch fails, or "ok"
    stream,        \* input: the bytes the child writes to each of its streams
    exitOK,        \* input: TRUE iff the child exits with status 0
    childExited,   \* the child process has exited (write ends closed)
    pipesClosed,   \* per path: cmd.Wait has closed the parent's read end
    buffer,        \* line 372: the one-byte read buffer (one for both paths)
    pos,           \* per path: number of bytes read from the pipe so far
    line,          \* per path: the local variable line
    rerr,          \* per path: the err of the failed Read
    werr,          \* the err returned by cmd.Wait
    wg,            \* the sync.WaitGroup counter
    output,        \* the channel's buffered messages
    closed,        \* the channel has been closed
    pc,            \* position of every goroutine and of the caller
    panicked,      \* "none", or the panic that ended the process
    ret,           \* what AsyncExecute returned: "none", "chan" or "err"
    received,      \* the messages the caller has received, in order
    sent,          \* history: every message sent, in order, with its sender
    closes,        \* history: number of close(output) statements executed
    call,          \* input: a call of mergePerm, Mkdir or NewExecuter
    result         \* what that call returned, once it has returned

\* The state of an AsyncExecute session.
sessionVars ==
    <<launchOutcome, stream, exitOK, childExited, pipesClosed, buffer, pos,
      line, rerr, werr, wg, output, closed, pc, panicked, ret, received,
      sent, closes>>

vars == <<sessionVars, call, result>>

-----------------------------------------------------------------------------
(* Bounds and constants *)

\* Most bytes the child writes, its two streams taken together.
MaxBytes == 2

\* line 373: output := make(chan outputMessage, 2)
OutputCap == 2

NL == "\n"
NUL == "NUL"   \* the zero byte make([]byte, 1) starts with

Paths == {"stderr", "stdout"}
Procs == {"stderr", "stdout", "cancel", "wait", "caller"}

\* The bytes each stream is drawn from. The two alphabets share only the
\* newline, so the stream a byte came from can be read off the byte.
Alphabet(p) == IF p = "stdout" THEN {"a", NL} ELSE {"b", NL}

SeqsUpTo(S, n) == UNION {[1..k -> S] : k \in 0..n}

Hello == <<"h", "e", "l", "l", "o", NL>>

HelloCommand == [stdout |-> Hello, stderr |-> << >>]

\* The commands of the model: every pair of streams of at most MaxBytes bytes
\* together, and the command `echo hello`.
Commands ==
    {c \in [stdout : SeqsUpTo(Alphabet("stdout"), MaxBytes),
            stderr : SeqsUpTo(Alphabet("stderr"), MaxBytes)] :
        Len(c.stdout) + Len(c.stderr) <= MaxBytes}
    \cup {HelloCommand}

LaunchOutcomes == {"ok", "StdoutPipe", "StderrPipe", "Start"}

-----------------------------------------------------------------------------
(* type outputMessage struct { Line string; Error error; IsError bool } *)

outputMessage(l, e, i) == [Line |-> l, Error |-> e, IsError |-> i]

\* line 399 (stderr) and line 429 (stdout): the message of a finished line
LineMessage(p, l) == outputMessage(l, "nil", p = "stderr")

\* ErrorMessage with the stderr tag set on the error event.
ErrorMessageTagged(e) == outputMessage(<< >>, e, TRUE)

\* lines 387, 417, 453: outputMessage{Error: err}
ErrorMessage(e) == outputMessage(<< >>, e, FALSE)

-----------------------------------------------------------------------------
Init ==
    /\ launchOutcome \in LaunchOutcomes
    /\ stream \in Commands
    /\ exitOK \in BOOLEAN
    /\ childExited = FALSE
    /\ pipesClosed = [p \in Paths |-> FALSE]
    /\ buffer = NUL
    /\ pos = [p \in Paths |-> 0]
    /\ line = [p \in Paths |-> << >>]
    /\ rerr = [p \in Paths |-> "nil"]
    /\ werr = "nil"
    /\ wg = 0
    /\ output = << >>
    /\ closed = FALSE
    /\ pc = [q \in Procs |-> IF q = "caller" THEN "call" ELSE "idle"]
    /\ panicked = "none"
    /\ ret = "none"
    /\ received = << >>
    /\ sent = << >>
    /\ closes = 0
    /\ call = [op |-> "none"]
    /\ result = [done |-> FALSE]

Running == panicked = "none"

-----------------------------------------------------------------------------
(* Channel operations *)

\* output <- m by goroutine q, which then continues at `next`. Blocks while
\* the buffer is full; panics if the channel is closed.
Send(q, m, next) ==
    IF closed
    THEN /\ panicked' = "send on closed channel"
         /\ UNCHANGED <<output, sent, pc>>
    ELSE /\ Len(output) < OutputCap
         /\ output' = Append(output, m)
         /\ sent' = Append(sent, [msg |-> m, from |-> q])
         /\ pc' = [pc EXCEPT ![q] = next]
         /\ UNCHANGED panicked

\* close(output) by goroutine q, which then continues at `next`.
Close(q, next) ==
    /\ closes' = closes + 1
    /\ IF closed
       THEN /\ panicked' = "close of closed channel"
            /\ UNCHANGED <<closed, pc>>
       ELSE /\ closed' = TRUE
            /\ pc' = [pc EXCEPT ![q] = next]
            /\ UNCHANGED panicked

-----------------------------------------------------------------------------
(* AsyncExecute, lines 353-459: the launch and the four go statements *)

\* AsyncExecute with the check of StderrPipe's error (lines 363-365) left out:
\* the session is set up although the stderr pipe could not be attached.
AsyncExecuteStderrPipeUnchecked ==
    /\ Running
    /\ pc["caller"] = "call"
    /\ IF launchOutcome \in {"ok", "StderrPipe"}
       THEN /\ ret' = "chan"
            /\ wg' = 2
            /\ pc' = [q \in Procs |->
                        CASE q \in Paths -> "read"
                          [] q = "cancel" -> "wgWait"
                          [] q = "wait" -> "cmdWait"
                          [] OTHER -> "range"]
       ELSE /\ ret' = "err"
            /\ pc' = [pc EXCEPT !["caller"] = "done"]
            /\ UNCHANGED wg
    /\ UNCHANGED <<call, result, launchOutcome, stream, exitOK, childExited, pipesClosed,
                   buffer, pos, line, rerr, werr, output, closed, panicked,
                   received, sent, closes>>

AsyncExecute ==
    /\ Running
    /\ pc["caller"] = "call"
    /\ IF launchOutcome = "ok"
       THEN /\ ret' = "chan"
            /\ wg' = 2
            /\ pc' = [q \in Procs |->
                        CASE q \in Paths -> "read"
                          [] q = "cancel" -> "wgWait"
                          [] q = "wait" -> "cmdWait"
                          [] OTHER -> "range"]
       ELSE /\ ret' = "err"
            /\ pc' = [pc EXCEPT !["caller"] = "done"]
            /\ UNCHANGED wg
    /\ UNCHANGED <<call, result, launchOutcome, stream, exitOK, childExited, pipesClosed,
                   buffer, pos, line, rerr, werr, output, closed, panicked,
                   received, sent, closes>>

\* The child process exits; every byte it wrote stays readable in the pipes.
ChildExit ==
    /\ Running
    /\ ret = "chan"
    /\ ~childExited
    /\ childExited' = TRUE
    /\ UNCHANGED <<call, result, launchOutcome, stream, exitOK, pipesClosed, buffer, pos,
                   line, rerr, werr, wg, output, closed, pc, panicked, ret,
                   received, sent, closes>>

-----------------------------------------------------------------------------
(* The decode goroutines, lines 379-405 (stderr) and 409-435 (stdout) *)

\* lines 385-390, 415-420: _, err := stream.Read(buffer); if err != nil
Read(p) ==
    /\ Running
    /\ pc[p] = "read"
    /\ \/ /\ pipesClosed[p]
          /\ rerr' = [rerr EXCEPT ![p] = "ErrClosed"]
          /\ pc' = [pc EXCEPT ![p] = "sendErr"]
          /\ UNCHANGED <<buffer, pos>>
       \/ /\ ~pipesClosed[p]
          /\ pos[p] < Len(stream[p])
          /\ buffer' = stream[p][pos[p] + 1]
          /\ pos' = [pos EXCEPT ![p] = @ + 1]
          /\ pc' = [pc EXCEPT ![p] = "check"]
          /\ UNCHANGED rerr
       \/ /\ ~pipesClosed[p]
          /\ pos[p] = Len(stream[p])
          /\ childExited
          /\ rerr' = [rerr EXCEPT ![p] = "EOF"]
          /\ pc' = [pc EXCEPT ![p] = "sendErr"]
          /\ UNCHANGED <<buffer, pos>>
    /\ UNCHANGED <<call, result, launchOutcome, stream, exitOK, childExited, pipesClosed,
                   line, werr, wg, output, closed, panicked, ret, received,
                   sent, closes>>

\* lines 392-394, 422-424: if string(buffer) == "\n" { break line }
Check(p) ==
    /\ Running
    /\ pc[p] = "check"
    /\ pc' = [pc EXCEPT ![p] = IF buffer = NL THEN "sendLine" ELSE "append"]
    /\ UNCHANGED <<call, result, launchOutcome, stream, exitOK, childExited, pipesClosed,
                   buffer, pos, line, rerr, werr, wg, output, closed, panicked,
                   ret, received, sent, closes>>

\* lines 396, 426: line += string(buffer)
AppendByte(p) ==
    /\ Running
    /\ pc[p] = "append"
    /\ line' = [line EXCEPT ![p] = Append(@, buffer)]
    /\ pc' = [pc EXCEPT ![p] = "read"]
    /\ UNCHANGED <<call, result, launchOutcome, stream, exitOK, childExited, pipesClosed,
                   buffer, pos, rerr, werr, wg, output, closed, panicked, ret,
                   received, sent, closes>>

\* lines 399-401, 429-431: output <- outputMessage{Line: line, ...}; line = ""
SendLine(p) ==
    /\ Running
    /\ pc[p] = "sendLine"
    /\ Send(p, LineMessage(p, line[p]), "read")
    /\ line' = IF closed THEN line ELSE [line EXCEPT ![p] = << >>]
    /\ UNCHANGED <<call, result, launchOutcome, stream, exitOK, childExited, pipesClosed,
                   buffer, pos, rerr, werr, wg, closed, ret, received, closes>>

\* lines 387-389, 417-419: output <- outputMessage{Error: err}; break console
SendReadError(p) ==
    /\ Running
    /\ pc[p] = "sendErr"
    /\ Send(p, ErrorMessage(rerr[p]), "wgDone")
    /\ UNCHANGED <<call, result, launchOutcome, stream, exitOK, childExited, pipesClosed,
                   buffer, pos, line, rerr, werr, wg, closed, ret, received,
                   closes>>

\* lines 404, 434: wg.Done()
WgDone(p) ==
    /\ Running
    /\ pc[p] = "wgDone"
    /\ wg' = wg - 1
    /\ pc' = [pc EXCEPT ![p] = "done"]
    /\ UNCHANGED <<call, result, launchOutcome, stream, exitOK, childExited, pipesClosed,
                   buffer, pos, line, rerr, werr, output, closed, panicked, ret,
                   received, sent, closes>>

-----------------------------------------------------------------------------
(* The "cancel on error" goroutine, lines 438-447 *)

\* line 439: wg.Wait()
CancelWgWait ==
    /\ Running
    /\ pc["cancel"] = "wgWait"
    /\ wg = 0
    /\ pc' = [pc EXCEPT !["cancel"] = "cmdCancel"]
    /\ UNCHANGED <<call, result, launchOutcome, stream, exitOK, childExited, pipesClosed,
                   buffer, pos, line, rerr, werr, wg, output, closed, panicked,
                   ret, received, sent, closes>>

\* line 441: err := cmd.Cancel(). cmd comes from exec.Command (line 354), so
\* the field Cancel is nil and the call panics; lines 442-446 never run.
CancelCall ==
    /\ Running
    /\ pc["cancel"] = "cmdCancel"
    /\ panicked' = "nil func call"
    /\ UNCHANGED <<call, result, launchOutcome, stream, exitOK, childExited, pipesClosed,
                   buffer, pos, line, rerr, werr, wg, output, closed, pc, ret,
                   received, sent, closes>>

-----------------------------------------------------------------------------
(* The "wait and close" goroutine, lines 450-457 *)

\* line 451, cmd.Wait, first part: it blocks until the child has exited, reaps
\* it, and starts closing the parent's pipe ends in the order they were made
\* (StdoutPipe at line 357, StderrPipe at line 362): here the stdout end.
CmdWait ==
    /\ Running
    /\ pc["wait"] = "cmdWait"
    /\ childExited
    /\ pipesClosed' = [pipesClosed EXCEPT !["stdout"] = TRUE]
    /\ pc' = [pc EXCEPT !["wait"] = "cmdWaitReturn"]
    /\ UNCHANGED <<call, result, launchOutcome, stream, exitOK, childExited, buffer, pos,
                   line, rerr, werr, wg, output, closed, panicked, ret, received,
                   sent, closes>>

\* lines 451-452, cmd.Wait, second part: it closes the stderr end and
\* returns; err := cmd.Wait(); if err != nil
CmdWaitReturn ==
    /\ Running
    /\ pc["wait"] = "cmdWaitReturn"
    /\ pipesClosed' = [pipesClosed EXCEPT !["stderr"] = TRUE]
    /\ werr' = IF exitOK THEN "nil" ELSE "ExitError"
    /\ pc' = [pc EXCEPT !["wait"] = IF exitOK THEN "close" ELSE "sendErr"]
    /\ UNCHANGED <<call, result, launchOutcome, stream, exitOK, childExited, buffer, pos,
                   line, rerr, wg, output, closed, panicked, ret, received,
                   sent, closes>>

\* SendWaitError with the send left out: the exit error is dropped and the
\* goroutine goes on to close the channel.
SendWaitErrorDropped ==
    /\ Running
    /\ pc["wait"] = "sendErr"
    /\ pc' = [pc EXCEPT !["wait"] = "close"]
    /\ UNCHANGED <<call, result, launchOutcome, stream, exitOK, childExited, pipesClosed,
                   buffer, pos, line, rerr, werr, wg, output, closed, panicked,
                   ret, received, sent, closes>>

\* line 453: output <- outputMessage{Error: err}
SendWaitError ==
    /\ Running
    /\ pc["wait"] = "sendErr"
    /\ Send("wait", ErrorMessage(werr), "close")
    /\ UNCHANGED <<call, result, launchOutcome, stream, exitOK, childExited, pipesClosed,
                   buffer, pos, line, rerr, werr, wg, closed, ret, received,
                   closes>>

\* line 456: close(output)
WaitClose ==
    /\ Running
    /\ pc["wait"] = "close"
    /\ Close("wait", "done")
    /\ UNCHANGED <<call, result, launchOutcome, stream, exitOK, childExited, pipesClosed,
                   buffer, pos, line, rerr, werr, wg, output, ret, received,
                   sent>>

-----------------------------------------------------------------------------
(* The caller: for msg := range output { ... } *)

Receive ==
    /\ Running
    /\ pc["caller"] = "range"
    /\ output # << >>
    /\ received' = Append(received, Head(output))
    /\ output' = Tail(output)
    /\ UNCHANGED <<call, result, launchOutcome, stream, exitOK, childExited, pipesClosed,
                   buffer, pos, line, rerr, werr, wg, closed, pc, panicked, ret,
                   sent, closes>>

RangeEnd ==
    /\ Running
    /\ pc["caller"] = "range"
    /\ output = << >>
    /\ closed
    /\ pc' = [pc EXCEPT !["caller"] = "done"]
    /\ UNCHANGED <<call, result, launchOutcome, stream, exitOK, childExited, pipesClosed,
                   buffer, pos, line, rerr, werr, wg, output, closed, panicked,
                   ret, received, sent, closes>>

-----------------------------------------------------------------------------
(* Execute, lines 277-289: output, err := cmd.Output(); string(output), err *)

\* cmd.Output runs the child to its end and returns every byte it wrote to
\* standard output, and an *ExitError if it exited with a failure status.
Execute(cmd) ==
    [output |-> cmd.stdout, err |-> IF exitOK THEN "nil" ELSE "ExitError"]

-----------------------------------------------------------------------------
Next ==
    \/ AsyncExecute
    \/ ChildExit
    \/ \E p \in Paths : Read(p)
    \/ \E p \in Paths : Check(p)
    \/ \E p \in Paths : AppendByte(p)
    \/ \E p \in Paths : SendLine(p)
    \/ \E p \in Paths : SendReadError(p)
    \/ \E p \in Paths : WgDone(p)
    \/ CancelWgWait
    \/ CancelCall
    \/ CmdWait
    \/ CmdWaitReturn
    \/ SendWaitError
    \/ WaitClose
    \/ Receive
    \/ RangeEnd

Spec == Init /\ [][Next]_vars

-----------------------------------------------------------------------------
(* mergePerm, lines 164-184 *)

\* line 164: type PermissionMode uint16
MaxUint16 == 65535

\* lines 167 and 169
Perm_rwx == 7
Perm_rox == 5

DigitChars == <<"0", "1", "2", "3", "4", "5", "6", "7", "8", "9">>

DigitValue(c) == CHOOSE d \in 0..9 : DigitChars[d + 1] = c

\* fmt's %v of an unsigned integer: its decimal digits.
RECURSIVE FormatUint(_)
FormatUint(n) ==
    IF n < 10
    THEN <<DigitChars[n + 1]>>
    ELSE FormatUint(n \div 10) \o <<DigitChars[(n % 10) + 1]>>

\* strconv.ParseUint(s, 10, 32) on a string of decimal digits. The value is
\* kept as hi * 65536 + lo; it is out of range once it needs more than 32
\* bits, that is once hi needs more than 16.
RECURSIVE ParseDigits(_, _, _)
ParseDigits(s, hi, lo) ==
    IF s = << >>
    THEN [hi |-> hi, lo |-> lo, err |-> "nil"]
    ELSE LET t == lo * 10 + DigitValue(Head(s))
             hi2 == hi * 10 + (t \div 65536)
         IN  IF hi2 > MaxUint16
             THEN [hi |-> MaxUint16, lo |-> MaxUint16, err |-> "ErrRange"]
             ELSE ParseDigits(Tail(s), hi2, t % 65536)

ParseUint32(s) ==
    IF s = << >>
    THEN [hi |-> 0, lo |-> 0, err |-> "ErrSyntax"]
    ELSE ParseDigits(s, 0, 0)

\* lines 177-184: the three components printed one after the other, parsed
\* as one decimal number of at most 32 bits, and cut to 16 bits.
mergePerm(owner, group, other) ==
    LET res == ParseUint32(FormatUint(owner) \o FormatUint(group) \o FormatUint(other))
    IN  IF res.err # "nil"
        THEN [val |-> 0, err |-> res.err]
        ELSE [val |-> res.lo, err |-> "nil"]

-----------------------------------------------------------------------------
(* executer.Mkdir, lines 310-325 *)

\* os.Mkdir(name, os.FileMode(permBits)) asks the system for the mode's
\* permission bits, FileMode.Perm(): the low nine bits.
FileModePerm(m) == m % 512

\* The mode Mkdir asks for with the arguments perm, or the error it returns
\* before asking.
Mkdir(perm) ==
    LET dflt == <<Perm_rwx, Perm_rox, Perm_rox>>
        p == [i \in 1..3 |-> IF i <= Len(perm) THEN perm[i] ELSE dflt[i]]
        m == mergePerm(p[1], p[2], p[3])
    IN  IF m.err # "nil"
        THEN [err |-> m.err, asked |-> FALSE, permBits |-> 0, mode |-> 0]
        ELSE [err |-> "nil", asked |-> TRUE, permBits |-> m.val,
              mode |-> FileModePerm(m.val)]

-----------------------------------------------------------------------------
(* NewExecuter, lines 196-274 *)

\* lines 199-202
CLI_AUTO == 0
CLI_POWERSHELL == 1
CLI_CMD == 2
CLI_BASH == 3

\* NewExecuter with the platform test of the default case left out.
NewExecuterAlwaysBash(cli, goos) ==
    CASE cli = CLI_POWERSHELL -> [cliExecuter |-> "powershell.exe", cliParams |-> "/c"]
      [] cli = CLI_CMD -> [cliExecuter |-> "cmd.exe", cliParams |-> "/c"]
      [] OTHER -> [cliExecuter |-> "/bin/bash", cliParams |-> "-c"]

\* lines 236-274; goos is runtime.GOOS
NewExecuter(cli, goos) ==
    CASE cli = CLI_POWERSHELL -> [cliExecuter |-> "powershell.exe", cliParams |-> "/c"]
      [] cli = CLI_CMD -> [cliExecuter |-> "cmd.exe", cliParams |-> "/c"]
      [] cli = CLI_BASH -> [cliExecuter |-> "/bin/bash", cliParams |-> "-c"]
      [] OTHER -> IF goos = "windows"
                  THEN [cliExecuter |-> "powershell.exe", cliParams |-> "/c"]
                  ELSE [cliExecuter |-> "/bin/bash", cliParams |-> "-c"]

-----------------------------------------------------------------------------
(* Calls of the three functions on bounded inputs *)

\* Largest small value tried for a PermissionMode argument.
MaxPerm == 8

\* Most perm arguments passed to Mkdir.
MaxPermArgs == 4

\* Largest CLI value passed to NewExecuter.
MaxCLI == 4

PermModes == 0..MaxPerm \cup {MaxUint16}

Platforms == {"windows", "linux", "darwin", "freebsd"}

HelperCalls ==
    [op : {"mergePerm"}, owner : PermModes, group : PermModes, other : PermModes]
    \cup [op : {"Mkdir"}, perm : SeqsUpTo(0..MaxPerm, MaxPermArgs)]
    \cup [op : {"NewExecuter"}, cli : 0..MaxCLI, goos : Platforms]

HelperInit ==
    /\ call \in HelperCalls
    /\ result = [done |-> FALSE]
    /\ launchOutcome = "ok"
    /\ stream = [stdout |-> << >>, stderr |-> << >>]
    /\ exitOK = TRUE
    /\ childExited = FALSE
    /\ pipesClosed = [p \in Paths |-> FALSE]
    /\ buffer = NUL
    /\ pos = [p \in Paths |-> 0]
    /\ line = [p \in Paths |-> << >>]
    /\ rerr = [p \in Paths |-> "nil"]
    /\ werr = "nil"
    /\ wg = 0
    /\ output = << >>
    /\ closed = FALSE
    /\ pc = [q \in Procs |-> IF q = "caller" THEN "call" ELSE "idle"]
    /\ panicked = "none"
    /\ ret = "none"
    /\ received = << >>
    /\ sent = << >>
    /\ closes = 0

MergePermCall ==
    /\ call.op = "mergePerm"
    /\ ~result.done
    /\ result' = [done |-> TRUE, ret |-> mergePerm(call.owner, call.group, call.other)]
    /\ UNCHANGED <<sessionVars, call>>

MkdirCall ==
    /\ call.op = "Mkdir"
    /\ ~result.done
    /\ result' = [done |-> TRUE, ret |-> Mkdir(call.perm)]
    /\ UNCHANGED <<sessionVars, call>>

NewExecuterCall ==
    /\ call.op = "NewExecuter"
    /\ ~result.done
    /\ result' = [done |-> TRUE, ret |-> NewExecuter(call.cli, call.goos)]
    /\ UNCHANGED <<sessionVars, call>>

HelperNext ==
    \/ MergePermCall
    \/ MkdirCall
    \/ NewExecuterCall

HelperSpec == HelperInit /\ [][HelperNext]_vars

-----------------------------------------------------------------------------
(* Vocabulary of the properties *)

\* AsyncExecute has returned a channel: a session is running or has run.
Session == ret = "chan"

Producers == {"stderr", "stdout", "wait"}

\* The whole system can take no further step.
Stopped == ~ENABLED Next

\* The session has ended the way it is meant to: channel closed, every
\* goroutine and the caller's range loop finished.
AllDone == closed /\ \A q \in Procs : pc[q] = "done"

\* The caller's range loop has ended: it has observed the closure.
CallerSawClose == Session /\ pc["caller"] = "done"

\* The lines of a byte stream: its bytes split on newline, the unterminated
\* rest dropped.
RECURSIVE SplitLines(_)
SplitLines(s) ==
    IF \A i \in DOMAIN s : s[i] # NL
    THEN << >>
    ELSE LET k == CHOOSE i \in DOMAIN s :
                      s[i] = NL /\ \A j \in 1..(i - 1) : s[j] # NL
         IN  <<SubSeq(s, 1, k - 1)>> \o SplitLines(SubSeq(s, k + 1, Len(s)))

IsPrefix(s, t) == Len(s) <= Len(t) /\ s = SubSeq(t, 1, Len(s))

Count(s, x) == Cardinality({i \in DOMAIN s : s[i] = x})

\* The Line values of the line events received with the tag of path p.
ReceivedLines(p) ==
    LET IsLineOf(m) == m.Error = "nil" /\ m.IsError = (p = "stderr")
        evs == SelectSeq(received, IsLineOf)
    IN  [i \in DOMAIN evs |-> evs[i].Line]

\* Indices in `sent` of the error-bearing events sent by goroutine q.
ErrorsSentBy(q) ==
    {i \in DOMAIN sent : sent[i].from = q /\ sent[i].msg.Error # "nil"}

\* Indices in `sent` of the error-bearing events no decode path sent.
OtherErrors ==
    {i \in DOMAIN sent : sent[i].from \notin Paths /\ sent[i].msg.Error # "nil"}

\* The lines of ls, each followed by a newline, concatenated.
RECURSIVE JoinLines(_)
JoinLines(ls) ==
    IF ls = << >> THEN << >> ELSE Head(ls) \o <<NL>> \o JoinLines(Tail(ls))

\* The bytes the child writes to the stream of path p.
StreamBytes(p) == {stream[p][k] : k \in DOMAIN stream[p]}

\* The channel is FIFO: what the caller has received are the first messages
\* sent, so the i-th message received is the i-th sent.
Delivered(i) == i <= Len(received)

-----------------------------------------------------------------------------
(* C1..C10 *)

\* C1: in every session the output channel is closed exactly once: close is
\* never executed a second time, and a session that has come to a stop has
\* executed it once.
C1_ClosedExactlyOnce ==
    Session => /\ closes <= 1
               /\ Stopped => closes = 1

\* C2: no send on the output channel occurs after the channel has been
\* closed, and no producer is at a send (pending or blocked) while the channel
\* is closed.
C2_NoSendAfterClose ==
    /\ panicked # "send on closed channel"
    /\ closed => \A q \in Producers : pc[q] \notin {"sendLine", "sendErr"}

\* C3: the channel is closed only after the stdout decode path and the stderr
\* decode path have finished and cmd.Wait has returned.
C3_CloseAfterProducers ==
    closed => /\ pc["stdout"] = "done"
              /\ pc["stderr"] = "done"
              /\ pc["wait"] \notin {"idle", "cmdWait", "cmdWaitReturn"}

\* C4: a session never comes to a stop before the channel is closed and every
\* goroutine has terminated: as long as it has not ended that way, some
\* goroutine, the child or the caller can take a step.
C4_NoDeadlockNoLeak ==
    Session => AllDone \/ ENABLED Next

\* C5: when the caller observes the closure it has received, for each path,
\* exactly as many line events with that path's tag as the stream has lines,
\* and each line as often as the stream holds it.
C5_AllLinesReceived ==
    CallerSawClose =>
        \A p \in Paths :
            LET got == ReceivedLines(p)
                want == SplitLines(stream[p])
            IN  /\ Len(got) = Len(want)
                /\ \A i \in DOMAIN want : Count(got, want[i]) = Count(want, want[i])

\* C6: each decode path emits exactly one error-bearing event, on its first
\* failed read, and nothing after it, and the caller has received that event
\* when it observes the closure.
C6_OneTerminalErrorPerPath ==
    \A p \in Paths :
        /\ Cardinality(ErrorsSentBy(p)) <= 1
        /\ pc[p] \in {"wgDone", "done"} =>
               \E i \in ErrorsSentBy(p) :
                   /\ sent[i].msg.Error = rerr[p]
                   /\ \A j \in DOMAIN sent : sent[j].from = p => j <= i
        /\ CallerSawClose => \E i \in ErrorsSentBy(p) : Delivered(i)

\* C7: at most one error event comes from outside the decode paths; when the
\* channel is closed, a failing exit has put exactly one such event, carrying
\* the exit error, on the channel, and a successful exit has put none.
C7_ExitErrorInBand ==
    /\ Cardinality(OtherErrors) <= 1
    /\ \A i \in OtherErrors : sent[i].from = "wait" /\ sent[i].msg.Error = "ExitError"
    /\ closed => Cardinality(OtherErrors) = (IF exitOK THEN 0 ELSE 1)
    /\ exitOK => OtherErrors = {}

\* A failing exit whose error event the caller received before it observed
\* the closure.
C7_Witness ==
    /\ CallerSawClose
    /\ ~exitOK
    /\ \E i \in OtherErrors : Delivered(i)

\* C8: for `echo hello` exiting with status 0, the caller has received, when
\* it observes the closure, exactly one event: the non-stderr line "hello";
\* it never receives an event carrying an error.
C8_EchoHello ==
    (Session /\ stream = HelloCommand /\ exitOK) =>
        /\ \A i \in DOMAIN received : received[i].Error = "nil"
        /\ CallerSawClose =>
               received = <<outputMessage(<<"h", "e", "l", "l", "o">>, "nil", FALSE)>>

\* C9: for each path, the Line values received with that path's tag are, in
\* order, the first lines of that stream, and all of them once the caller
\* observes the closure.
C9_PerPathFIFO ==
    \A p \in Paths :
        /\ IsPrefix(ReceivedLines(p), SplitLines(stream[p]))
        /\ CallerSawClose => ReceivedLines(p) = SplitLines(stream[p])

\* C10: the byte a path examines and accumulates is the byte it read last
\* from its own stream, and its line accumulator and every line it emits
\* hold only bytes of its own stream.
C10_PathsShareNothing ==
    \A p \in Paths :
        /\ pc[p] \in {"check", "append"} => buffer = stream[p][pos[p]]
        /\ \A i \in DOMAIN line[p] : line[p][i] \in StreamBytes(p)
        /\ \A j \in DOMAIN sent :
               sent[j].from = p =>
                   \A i \in DOMAIN sent[j].msg.Line :
                       sent[j].msg.Line[i] \in StreamBytes(p)

-----------------------------------------------------------------------------
(* C11..C13 *)

\* C11: if StdoutPipe, StderrPipe or Start fails, AsyncExecute returns the
\* error and no channel, no message is ever sent or received, the channel is
\* never closed, and no decode, cancel or wait goroutine is ever started.
C11_LaunchFailureIsSynchronous ==
    launchOutcome # "ok" =>
        /\ ret \in {"none", "err"}
        /\ pc["caller"] = "done" <=> ret = "err"
        /\ \A q \in Procs \ {"caller"} : pc[q] = "idle"
        /\ wg = 0 /\ sent = << >> /\ received = << >> /\ output = << >>
        /\ ~closed /\ closes = 0 /\ panicked = "none"

\* AsyncExecute has returned the error of a failed StderrPipe.
C11_Witness ==
    launchOutcome = "StderrPipe" /\ ret = "err" /\ pc["caller"] = "done"

\* C12: the channel never holds more than its capacity, and no event a
\* producer has produced is dropped: when the caller observes the closure it
\* has received every event sent and no producer is left holding an event it
\* has still to send.
C12_BackpressureNeverDrops ==
    /\ Len(output) <= OutputCap
    /\ CallerSawClose =>
           /\ Len(received) = Len(sent)
           /\ \A q \in Producers : pc[q] \notin {"sendLine", "sendErr"}

\* C13: when the caller observes the closure, the Line fields of the events
\* received without error and without the stderr tag, each followed by a
\* newline, concatenated, are the text Execute returns for the same command.
C13_ParityWithExecute ==
    CallerSawClose => JoinLines(ReceivedLines("stdout")) = Execute(stream).output

-----------------------------------------------------------------------------
(* C17..C20 *)

\* The Line values of the line events path p has sent, in order.
LinesSentBy(p) ==
    LET IsLineOf(x) == x.from = p /\ x.msg.Error = "nil"
        evs == SelectSeq(sent, IsLineOf)
    IN  [i \in DOMAIN evs |-> evs[i].msg.Line]

NewlinesIn(s) == Cardinality({i \in DOMAIN s : s[i] = NL})

\* The bytes path p has read so far.
BytesRead(p) == SubSeq(stream[p], 1, pos[p])

\* Path p is between two iterations of its read loop, or past the loop:
\* every byte it has read has been dealt with.
Settled(p) == pc[p] \in {"read", "sendErr", "wgDone", "done"}

Terminated(p) == pc[p] \in {"wgDone", "done"}

\* C17: a path whose stream ends in bytes without a newline emits no line
\* event for them: it never sends more line events than its stream has
\* newlines, and once it has terminated the last event it sent is its
\* error event.
C17_TrailingBytesNotFlushed ==
    \A p \in Paths :
        (stream[p] # << >> /\ stream[p][Len(stream[p])] # NL) =>
            /\ Len(LinesSentBy(p)) <= NewlinesIn(stream[p])
            /\ Terminated(p) =>
                   \E i \in ErrorsSentBy(p) :
                       \A j \in DOMAIN sent : sent[j].from = p => j <= i

\* C18: every newline a path has read has produced a line event, and the
\* event of a newline that starts the stream or follows another newline has
\* Line "" and the tag of the path.
C18_EmptyLinesEmitted ==
    \A p \in Paths :
        Settled(p) =>
            /\ Len(LinesSentBy(p)) >= NewlinesIn(BytesRead(p))
            /\ \A i \in 1..pos[p] :
                   (stream[p][i] = NL /\ (i = 1 \/ stream[p][i - 1] = NL)) =>
                       LET k == NewlinesIn(SubSeq(stream[p], 1, i))
                       IN  /\ k <= Len(LinesSentBy(p))
                           /\ LinesSentBy(p)[k] = << >>
            /\ \A j \in DOMAIN sent :
                   (sent[j].from = p /\ sent[j].msg.Error = "nil") =>
                       sent[j].msg.IsError = (p = "stderr")

\* C19: the channel is not closed before the barrier has seen both decode
\* paths terminate, and after one path has terminated no line its sibling has
\* completed is left undelivered when the caller observes the closure.
C19_ErrorIsolation ==
    /\ closed => (wg = 0 /\ pc["cancel"] # "wgWait")
    /\ \A p \in Paths : \A q \in Paths \ {p} :
           (Terminated(p) /\ CallerSawClose) => pc[q] # "sendLine"

\* C20: every event sent is a line event (Error nil) or an error event with
\* an empty Line, and every error event has IsError = FALSE, whether the
\* stderr path, the stdout path or the wait goroutine sent it.
C20_ErrorEventsUntagged ==
    \A j \in DOMAIN sent :
        LET m == sent[j].msg
        IN  /\ m.Error \in {"nil", "EOF", "ErrClosed", "ExitError"}
            /\ m.Error # "nil" => (m.Line = << >> /\ m.IsError = FALSE)
            /\ m.Error = "nil" => sent[j].from \in Paths

\* The stderr path, the stdout path and the wait goroutine have each sent an
\* error event.
C20_Witness ==
    \A q \in Producers : ErrorsSentBy(q) # {}

-----------------------------------------------------------------------------
(* C14..C16, under HelperSpec *)

Returned(op) == call.op = op /\ result.done

\* C14: mergePerm(7,5,5) returns 755 and mergePerm(6,0,0) returns 600, both
\* without error, and a call with a component outside 0..7 returns an error.
C14_MergePerm ==
    Returned("mergePerm") =>
        LET args == <<call.owner, call.group, call.other>>
        IN  /\ args = <<7, 5, 5>> => result.ret = [val |-> 755, err |-> "nil"]
            /\ args = <<6, 0, 0>> => result.ret = [val |-> 600, err |-> "nil"]
            /\ (\E i \in 1..3 : args[i] \notin 0..7) => result.ret.err # "nil"

\* The permission digits Mkdir is meant to use: perm[1..3] where given, else
\* the defaults 7, 5, 5; arguments beyond the third do not count.
WantedDigits(perm) ==
    [i \in 1..3 |-> IF i <= Len(perm) THEN perm[i] ELSE <<7, 5, 5>>[i]]

\* The mode bits of owner, group and others digits o, g, t: octal ogt.
OctalMode(o, g, t) == o * 64 + g * 8 + t

\* C15: Mkdir asks for the mode whose owner, group and others digits are
\* perm[0], perm[1], perm[2] where given and 7, 5, 5 where not: octal 0755
\* when called without perm arguments.
C15_MkdirMode ==
    Returned("Mkdir") =>
        LET d == WantedDigits(call.perm)
        IN  (\A i \in 1..3 : d[i] \in 0..7) =>
                /\ result.ret.err = "nil"
                /\ result.ret.asked
                /\ result.ret.mode = OctalMode(d[1], d[2], d[3])

\* C16: NewExecuter returns (powershell.exe, /c) for PowerShell, (cmd.exe, /c)
\* for Cmd, (/bin/bash, -c) for Bash, and for Auto the PowerShell binding on
\* Windows and the Bash binding on any other platform.
C16_NewExecuter ==
    Returned("NewExecuter") =>
        LET b == result.ret
            powershell == [cliExecuter |-> "powershell.exe", cliParams |-> "/c"]
            cmdexe == [cliExecuter |-> "cmd.exe", cliParams |-> "/c"]
            bash == [cliExecuter |-> "/bin/bash", cliParams |-> "-c"]
        IN  /\ call.cli = 1 => b = powershell
            /\ call.cli = 2 => b = cmdexe
            /\ call.cli = 3 => b = bash
            /\ call.cli = 0 => b = (IF call.goos = "windows" THEN powershell ELSE bash)
            /\ b \in {powershell, cmdexe, bash}

\* NewExecuter(CLI_AUTO) has returned on Windows.
C16_Witness ==
    /\ Returned("NewExecuter")
    /\ call.cli = 0
    /\ call.goos = "windows"
    /\ result.ret.cliExecuter = "powershell.exe"

====
